---- MODULE Spec2Model ----
(***************************************************************************)
(* Model of 0x02-redis_basic/exercise.py: the Cache class, its decorators  *)
(* count_calls and call_history, and replay, running against one shared    *)
(* Redis database.                                                         *)
(*                                                                         *)
(* Text is a sequence of code points, raw bytes a sequence of 0..255.      *)
(* A Python scalar is [t |-> "str"|"bytes"|"int"|"float", v |-> seq]:      *)
(*   str   : v = the code points                                           *)
(*   bytes : v = the bytes                                                 *)
(*   int   : v = <<n>>                                                     *)
(*   float : v = <<k>>, the float k/10 (one decimal digit)                 *)
(* A conversion result is [ok |-> BOOLEAN, v |-> seq]; ok = FALSE is a     *)
(* raised exception.                                                       *)
(***************************************************************************)
EXTENDS Integers, Sequences, FiniteSets, TLC

Ok(s) == [ok |-> TRUE, v |-> s]
Raise == [ok |-> FALSE, v |-> <<>>]

Abs(n) == IF n < 0 THEN -n ELSE n

RECURSIVE Digits(_)
\* decimal digits of n >= 0, as character codes
Digits(n) == IF n < 10 THEN <<48 + n>> ELSE Digits(n \div 10) \o <<48 + (n % 10)>>

\* repr(n) of a Python int
ReprInt(n) == IF n < 0 THEN <<45>> \o Digits(-n) ELSE Digits(n)

\* repr(f) of the Python float k/10
ReprFloat(k) ==
    (IF k < 0 THEN <<45>> ELSE <<>>) \o Digits(Abs(k) \div 10) \o <<46>> \o Digits(Abs(k) % 10)

HexDigit(d) == IF d < 10 THEN 48 + d ELSE 87 + d

\* the \xNN escape of repr
HexEscape(b) == <<92, 120, HexDigit(b \div 16), HexDigit(b % 16)>>

\* the \uNNNN escape of repr, for a code point that cannot be printed
UEscape(ch) ==
    <<92, 117, HexDigit(ch \div 4096), HexDigit((ch \div 256) % 16),
      HexDigit((ch \div 16) % 16), HexDigit(ch % 16)>>

Has(s, ch) == \E i \in 1..Len(s) : s[i] = ch

\* the quote repr puts around s: " when s holds ' and no ", else '
QuoteOf(s) == IF Has(s, 39) /\ ~Has(s, 34) THEN 34 ELSE 39

\* one character of repr(str) inside quote q
ReprChar(ch, q) ==
    IF ch = 92 \/ ch = q THEN <<92, ch>>
    ELSE IF ch = 10 THEN <<92, 110>>
    ELSE IF ch = 13 THEN <<92, 114>>
    ELSE IF ch = 9 THEN <<92, 116>>
    ELSE IF ch < 32 \/ (ch >= 127 /\ ch <= 160) THEN HexEscape(ch)
    ELSE IF ch >= 55296 /\ ch <= 57343 THEN UEscape(ch)
    ELSE <<ch>>

\* one byte of repr(bytes) inside quote q
ReprByte(b, q) ==
    IF b = 92 \/ b = q THEN <<92, b>>
    ELSE IF b = 10 THEN <<92, 110>>
    ELSE IF b = 13 THEN <<92, 114>>
    ELSE IF b = 9 THEN <<92, 116>>
    ELSE IF b < 32 \/ b >= 127 THEN HexEscape(b)
    ELSE <<b>>

RECURSIVE ReprBody(_, _, _)
ReprBody(s, q, isBytes) ==
    IF s = <<>> THEN <<>>
    ELSE (IF isBytes THEN ReprByte(Head(s), q) ELSE ReprChar(Head(s), q))
         \o ReprBody(Tail(s), q, isBytes)

ReprStr(s) == <<QuoteOf(s)>> \o ReprBody(s, QuoteOf(s), FALSE) \o <<QuoteOf(s)>>

ReprBytes(s) == <<98, QuoteOf(s)>> \o ReprBody(s, QuoteOf(s), TRUE) \o <<QuoteOf(s)>>

\* repr(x) of a scalar
Repr(x) ==
    CASE x.t = "str" -> ReprStr(x.v)
      [] x.t = "bytes" -> ReprBytes(x.v)
      [] x.t = "int" -> ReprInt(x.v[1])
      [] x.t = "float" -> ReprFloat(x.v[1])

\* str(args): args is a tuple (a sequence of scalars) of length 0 or 1
StrArgs(args) ==
    IF args = <<>> THEN <<40, 41>> ELSE <<40>> \o Repr(args[1]) \o <<44, 41>>

\* UTF-8 bytes of one code point; surrogates cannot be encoded
Utf8Char(cp) ==
    IF cp < 128 THEN Ok(<<cp>>)
    ELSE IF cp < 2048 THEN Ok(<<192 + (cp \div 64), 128 + (cp % 64)>>)
    ELSE IF cp >= 55296 /\ cp <= 57343 THEN Raise
    ELSE IF cp < 65536
         THEN Ok(<<224 + (cp \div 4096), 128 + ((cp \div 64) % 64), 128 + (cp % 64)>>)
    ELSE Ok(<<240 + (cp \div 262144), 128 + ((cp \div 4096) % 64),
              128 + ((cp \div 64) % 64), 128 + (cp % 64)>>)

RECURSIVE Utf8Encode(_)
\* s.encode("utf-8")
Utf8Encode(s) ==
    IF s = <<>> THEN Ok(<<>>)
    ELSE LET h == Utf8Char(Head(s))
             r == Utf8Encode(Tail(s))
         IN IF h.ok /\ r.ok THEN Ok(h.v \o r.v) ELSE Raise

IsCont(b) == b >= 128 /\ b <= 191

\* length of the UTF-8 sequence a lead byte opens, 0 for an invalid lead
LeadLen(b) ==
    IF b < 128 THEN 1
    ELSE IF b >= 194 /\ b <= 223 THEN 2
    ELSE IF b >= 224 /\ b <= 239 THEN 3
    ELSE IF b >= 240 /\ b <= 244 THEN 4
    ELSE 0

\* code point of the n-byte sequence at the head of s, -1 when malformed
DecodeHead(s, n) ==
    IF n = 0 \/ Len(s) < n THEN -1
    ELSE IF n = 1 THEN s[1]
    ELSE IF \E i \in 2..n : ~IsCont(s[i]) THEN -1
    ELSE IF n = 2 THEN (s[1] - 192) * 64 + (s[2] - 128)
    ELSE IF n = 3
         THEN LET cp == (s[1] - 224) * 4096 + (s[2] - 128) * 64 + (s[3] - 128)
              IN IF cp < 2048 \/ (cp >= 55296 /\ cp <= 57343) THEN -1 ELSE cp
    ELSE LET cp == (s[1] - 240) * 262144 + (s[2] - 128) * 4096
                   + (s[3] - 128) * 64 + (s[4] - 128)
         IN IF cp < 65536 \/ cp > 1114111 THEN -1 ELSE cp

\* mutant: d.decode("latin-1"), every byte a code point
Latin1Decode(s) == Ok(s)

RECURSIVE Utf8Decode(_)
\* d.decode("utf-8")
Utf8Decode(s) ==
    IF s = <<>> THEN Ok(<<>>)
    ELSE LET n == LeadLen(Head(s))
             cp == DecodeHead(s, n)
         IN IF cp < 0 THEN Raise
            ELSE LET r == Utf8Decode(SubSeq(s, n + 1, Len(s)))
                 IN IF r.ok THEN Ok(<<cp>> \o r.v) ELSE Raise

IsSpace(b) == b = 32 \/ (b >= 9 /\ b <= 13)
IsDigit(b) == b >= 48 /\ b <= 57

RECURSIVE LStrip(_)
LStrip(s) == IF s # <<>> /\ IsSpace(Head(s)) THEN LStrip(Tail(s)) ELSE s

RECURSIVE RStrip(_)
RStrip(s) ==
    IF s # <<>> /\ IsSpace(s[Len(s)]) THEN RStrip(SubSeq(s, 1, Len(s) - 1)) ELSE s

RECURSIVE DigitRun(_, _, _)
\* value of digits with single underscores between them; -1 when malformed.
\* acc is the value so far, prevDigit says whether the last byte was a digit
DigitRun(s, acc, prevDigit) ==
    IF s = <<>> THEN (IF prevDigit THEN acc ELSE -1)
    ELSE IF IsDigit(Head(s)) THEN DigitRun(Tail(s), acc * 10 + (Head(s) - 48), TRUE)
    ELSE IF Head(s) = 95 /\ prevDigit THEN DigitRun(Tail(s), acc, FALSE)
    ELSE -1

\* int(d) of raw bytes d: base 10, optional sign, surrounding whitespace
ParseInt(d) ==
    LET s == RStrip(LStrip(d))
        neg == s # <<>> /\ Head(s) = 45
        body == IF s # <<>> /\ (Head(s) = 45 \/ Head(s) = 43) THEN Tail(s) ELSE s
        n == DigitRun(body, 0, FALSE)
    IN IF n < 0 THEN Raise ELSE Ok(<<IF neg THEN -n ELSE n>>)

(***************************************************************************)
(* Bounds and input sets                                                   *)
(***************************************************************************)
\* store calls begun against one generation of the database
MaxCalls == 2

\* processes, each holding one Cache on the shared database
Clients == {"c1", "c2"}

\* the identifiers str(uuid.uuid4()) can produce
Ids == {"u1", "u2"}

\* the qualified names replay can be asked about
Methods == {"Cache.store", "Cache.get"}

InputsKey(m) == IF m = "Cache.store" THEN "Cache.store:inputs" ELSE "Cache.get:inputs"
\* mutant: the outputs key is built with the inputs suffix
OutputsKeyTypo(m) == InputsKey(m)

OutputsKey(m) == IF m = "Cache.store" THEN "Cache.store:outputs" ELSE "Cache.get:outputs"

Keys == Ids \cup Methods \cup {InputsKey(m) : m \in Methods} \cup {OutputsKey(m) : m \in Methods}

\* the characters of a key
KeyText(k) ==
    CASE k = "u1" -> <<117, 49>>
      [] k = "u2" -> <<117, 50>>
      [] OTHER -> <<63>>

PyStr(s) == [t |-> "str", v |-> s]
PyBytes(s) == [t |-> "bytes", v |-> s]
PyInt(n) == [t |-> "int", v |-> <<n>>]
PyFloat(k) == [t |-> "float", v |-> <<k>>]

\* the data store is called with: 'é', '-7', b'\xff', 7, 0.5 and '\ud800'
Scalars ==
    {PyStr(<<233>>), PyStr(<<45, 55>>), PyBytes(<<255>>), PyInt(7), PyFloat(5),
     PyStr(<<55296>>)}

NoData == [t |-> "none", v |-> <<>>]

\* the store calls made: store(x) for every x above and store(data='é')
Calls ==
    {[data |-> x, kw |-> FALSE] : x \in Scalars} \cup {[data |-> PyStr(<<233>>), kw |-> TRUE]}

\* the store calls made while clients interleave: store('é') and store(7)
FewCalls ==
    {[data |-> x, kw |-> FALSE] : x \in {PyStr(<<233>>), PyInt(7)}}

\* the keys get is called with
GetKeys == Ids

Converters == {"none", "utf8", "int"}

(***************************************************************************)
(* The Redis database and the client's commands                            *)
(***************************************************************************)
Nil == [type |-> "none", s |-> <<>>, l |-> <<>>]
RString(raw) == [type |-> "string", s |-> raw, l |-> <<>>]
RList(items) == [type |-> "list", s |-> <<>>, l |-> items]

\* the bytes the client sends for a value: bytes as they are, str as UTF-8,
\* int and float as their repr
Encode(x) ==
    CASE x.t = "bytes" -> Ok(x.v)
      [] x.t = "str" -> Utf8Encode(x.v)
      [] x.t = "int" -> Ok(ReprInt(x.v[1]))
      [] x.t = "float" -> Ok(ReprFloat(x.v[1]))

\* mutant: initialize deletes the stored values only
FlushValuesOnly(d) == [k \in Keys |-> IF k \in Ids THEN Nil ELSE d[k]]

\* mutant: initialize deletes the counters and logs only
FlushStatisticsOnly(d) == [k \in Keys |-> IF k \in Ids THEN d[k] ELSE Nil]

FlushDb(d) == [k \in Keys |-> Nil]

RedisSet(d, k, raw) == [d EXCEPT ![k] = RString(raw)]

\* GET: None for an absent key, the bytes of a string, WRONGTYPE for a list
RedisGet(d, k) ==
    CASE d[k].type = "none" -> [kind |-> "None", v |-> <<>>]
      [] d[k].type = "string" -> [kind |-> "bytes", v |-> d[k].s]
      [] d[k].type = "list" -> [kind |-> "ResponseError", v |-> <<>>]

\* mutant: the count is written from a stale read of 0: updates are lost
RedisIncrStale(d, k) == [d EXCEPT ![k] = RString(ReprInt(1))]

\* INCR: an absent key counts from 0
RedisIncr(d, k) ==
    LET old == IF d[k].type = "none" THEN 0 ELSE ParseInt(d[k].s).v[1]
    IN [d EXCEPT ![k] = RString(ReprInt(old + 1))]

\* mutant: LPUSH, the new entry goes to the head of the list
RedisLpush(d, k, raw) == [d EXCEPT ![k] = RList(<<raw>> \o d[k].l)]

\* RPUSH: an absent key is an empty list
RedisRpush(d, k, raw) == [d EXCEPT ![k] = RList(d[k].l \o <<raw>>)]

\* LRANGE key 0 -1
RedisLrange(d, k) == d[k].l

(***************************************************************************)
(* State                                                                   *)
(***************************************************************************)
VARIABLES
    db,      \* the Redis database: key -> value
    pc,      \* per client: where it is in its current call
    call,    \* per client: data and calling style of the store call in progress
    key,     \* per client: the key store generated ("" before it has)
    rname,   \* per client: the method replay is reading
    rcount,  \* per client: the call count replay has read
    rins,    \* per client: the inputs replay has read
    base,    \* history: call count and logs of store when the last initialize or
             \* failed store call ended
    run,     \* history: the store calls that returned since then, in order
    failed,  \* history: the store calls that raised since the last initialize
             \* after pushing their input
    holder,  \* history, per identifier: the last store call that drew it since
             \* the last initialize, and whether that call has returned
    ledger,  \* history, since the last initialize: counted the clients whose store
             \* call in progress has sent its incr, ended the store calls that
             \* ended after sending theirs, returned the store calls that returned
    last     \* what the call the last step completed returned, raised or printed;
             \* NoOutcome after a step that completed no call

vars == <<db, pc, call, key, rname, rcount, rins, base, run, failed, holder, ledger,
          last>>

NoCall == [data |-> NoData, kw |-> FALSE]

NoHolder == [by |-> "", data |-> NoData, ok |-> FALSE]

NoLedger == [counted |-> {}, ended |-> 0, returned |-> 0]

\* the outcome of a call: op the call, by the client (of store and initialize),
\* key and fn and data its arguments, kind what came back (a value's type or an
\* exception's name), v the value; count and lines what replay printed; wiped
\* the returned store calls whose data an initialize deleted
Outcome(op, by, k, x, fn, kind, v, count, lines, wiped) ==
    [op |-> op, by |-> by, key |-> k, data |-> x, fn |-> fn, kind |-> kind, v |-> v,
     count |-> count, lines |-> lines, wiped |-> wiped]

NoOutcome == Outcome("none", "", "", NoData, "none", "None", <<>>, 0, <<>>, <<>>)

\* int(get(method_name) or 0) on database d
CallCount(d, m) ==
    LET r == RedisGet(d, m)
    IN IF r.kind = "None" \/ r.v = <<>> THEN 0 ELSE ParseInt(r.v).v[1]

Inputs(m) == RedisLrange(db, InputsKey(m))
Outputs(m) == RedisLrange(db, OutputsKey(m))

Snapshot(d) ==
    [count |-> CallCount(d, "Cache.store"),
     ins |-> RedisLrange(d, InputsKey("Cache.store")),
     outs |-> RedisLrange(d, OutputsKey("Cache.store"))]

Idle(c) == pc[c] = "idle"

Init ==
    /\ db = [k \in Keys |-> Nil]
    /\ pc = [c \in Clients |-> "idle"]
    /\ call = [c \in Clients |-> NoCall]
    /\ key = [c \in Clients |-> ""]
    /\ rname = [c \in Clients |-> ""]
    /\ rcount = [c \in Clients |-> 0]
    /\ rins = [c \in Clients |-> <<>>]
    /\ base = Snapshot([k \in Keys |-> Nil])
    /\ run = <<>>
    /\ failed = 0
    /\ holder = [k \in Ids |-> NoHolder]
    /\ ledger = NoLedger
    /\ last = NoOutcome

(***************************************************************************)
(* Cache.get and its converters                                            *)
(***************************************************************************)
\* fn(data) for the converters get_str and get_int pass
Convert(fn, raw) ==
    IF fn = "utf8"
    THEN LET r == Utf8Decode(raw)
         IN IF r.ok THEN [kind |-> "str", v |-> r.v]
            ELSE [kind |-> "UnicodeDecodeError", v |-> <<>>]
    ELSE LET r == ParseInt(raw)
         IN IF r.ok THEN [kind |-> "int", v |-> r.v]
            ELSE [kind |-> "ValueError", v |-> <<>>]

\* mutant: get applies the converter before it tests for None
CacheGetConvertFirst(d, k, fn) ==
    LET data == RedisGet(d, k)
    IN IF data.kind = "ResponseError" THEN data
       ELSE IF fn # "none" THEN Convert(fn, data.v)
       ELSE data

\* mutant: get catches the converter's exception and returns None
CacheGetSwallow(d, k, fn) ==
    LET data == RedisGet(d, k)
    IN IF data.kind = "ResponseError" THEN data
       ELSE IF data.kind = "None" THEN [kind |-> "None", v |-> <<>>]
       ELSE IF fn # "none"
            THEN (IF Convert(fn, data.v).kind \in {"ValueError", "UnicodeDecodeError"}
                  THEN [kind |-> "None", v |-> <<>>]
                  ELSE Convert(fn, data.v))
       ELSE data

\* mutant: get decodes what it returns when no converter is given
CacheGetDecoding(d, k, fn) ==
    LET data == RedisGet(d, k)
    IN IF data.kind = "ResponseError" THEN data
       ELSE IF data.kind = "None" THEN [kind |-> "None", v |-> <<>>]
       ELSE Convert(IF fn = "none" THEN "utf8" ELSE fn, data.v)

\* Cache.get(key, fn) on database d: what it returns or raises
CacheGet(d, k, fn) ==
    LET data == RedisGet(d, k)
    IN IF data.kind = "ResponseError" THEN data
       ELSE IF data.kind = "None" THEN [kind |-> "None", v |-> <<>>]
       ELSE IF fn # "none" THEN Convert(fn, data.v)
       ELSE data

CacheGetStr(d, k) == CacheGet(d, k, "utf8")

CacheGetInt(d, k) == CacheGet(d, k, "int")

(***************************************************************************)
(* Actions: every Redis command is one step                                *)
(***************************************************************************)
Back(c) ==
    /\ pc' = [pc EXCEPT ![c] = "idle"]
    /\ call' = [call EXCEPT ![c] = NoCall]
    /\ key' = [key EXCEPT ![c] = ""]
    /\ rname' = [rname EXCEPT ![c] = ""]
    /\ rcount' = [rcount EXCEPT ![c] = 0]
    /\ rins' = [rins EXCEPT ![c] = <<>>]

\* Cache(): connect and flush the database
Initialize(c) ==
    /\ Idle(c)
    /\ db' = FlushDb(db)
    /\ last' = Outcome("init", c, "", NoData, "none", "None", <<>>, 0, <<>>, run)
    /\ base' = Snapshot(db')
    /\ run' = <<>>
    /\ failed' = 0
    /\ holder' = [k \in Ids |-> NoHolder]
    /\ ledger' = NoLedger
    /\ UNCHANGED <<pc, call, key, rname, rcount, rins>>

\* the positional arguments of a store call: store(x) or store(data=x)
Args(cl) == IF cl.kw THEN <<>> ELSE <<cl.data>>

\* call_history.wrapper, before the wrapped call: rpush(inputs_key, str(args))
HistoryPushInput(c, cl) ==
    /\ Idle(c)
    /\ Len(Inputs("Cache.store")) < MaxCalls
    /\ db' = RedisRpush(db, InputsKey("Cache.store"), Utf8Encode(StrArgs(Args(cl))).v)
    /\ call' = [call EXCEPT ![c] = cl]
    /\ pc' = [pc EXCEPT ![c] = "incr"]
    /\ last' = NoOutcome
    /\ UNCHANGED <<key, rname, rcount, rins, base, run, failed, holder, ledger>>

\* count_calls.wrapper: incr(key)
CountIncr(c) ==
    /\ pc[c] = "incr"
    /\ db' = RedisIncr(db, "Cache.store")
    /\ pc' = [pc EXCEPT ![c] = "set"]
    /\ last' = NoOutcome
    /\ ledger' = [ledger EXCEPT !.counted = @ \cup {c}]
    /\ UNCHANGED <<call, key, rname, rcount, rins, base, run, failed, holder>>

\* history: the store call of c ends, returning (ret = 1) or raising (ret = 0)
LedgerEnded(c, ret) ==
    [counted |-> ledger.counted \ {c},
     ended |-> ledger.ended + (IF c \in ledger.counted THEN 1 ELSE 0),
     returned |-> ledger.returned + ret]

\* history: a store call raised after its input was pushed
StoreRaised ==
    /\ base' = Snapshot(db)
    /\ run' = <<>>
    /\ failed' = failed + 1
    /\ UNCHANGED holder

\* history: the store call of c draws an identifier
Drew(c) == [by |-> c, data |-> call[c].data, ok |-> FALSE]

\* history: the store call of c returns; it is still the last one that drew its
\* identifier unless another call has drawn it since
HolderReturned(c) ==
    IF holder[key[c]] = Drew(c)
    THEN [holder EXCEPT ![key[c]].ok = TRUE]
    ELSE holder

\* mutant: store writes under a fixed key and returns the generated one
StoreSetFixedKey(c) ==
    /\ pc[c] = "set"
    /\ Encode(call[c].data).ok
    /\ \E k \in Ids :
         /\ db' = RedisSet(db, "u1", Encode(call[c].data).v)
         /\ key' = [key EXCEPT ![c] = k]
         /\ pc' = [pc EXCEPT ![c] = "push_out"]
         /\ last' = NoOutcome
         /\ holder' = [holder EXCEPT ![k] = Drew(c)]
         /\ UNCHANGED <<call, rname, rcount, rins, base, run, failed, ledger>>

\* Cache.store: key = str(uuid.uuid4()); set(key, data).  The client raises
\* when it cannot encode the data.
StoreSet(c) ==
    /\ pc[c] = "set"
    /\ LET enc == Encode(call[c].data)
       IN IF enc.ok
          THEN \E k \in Ids :
                 /\ db' = RedisSet(db, k, enc.v)
                 /\ key' = [key EXCEPT ![c] = k]
                 /\ pc' = [pc EXCEPT ![c] = "push_out"]
                 /\ last' = NoOutcome
                 /\ holder' = [holder EXCEPT ![k] = Drew(c)]
                 /\ UNCHANGED <<call, rname, rcount, rins, base, run, failed, ledger>>
          ELSE /\ Back(c)
               /\ last' = Outcome("store", c, "", call[c].data, "none",
                                  "UnicodeEncodeError", <<>>, 0, <<>>, <<>>)
               /\ StoreRaised
               /\ ledger' = LedgerEnded(c, 0)
               /\ UNCHANGED db

\* call_history.wrapper, after the wrapped call: rpush(outputs_key, str(output));
\* return output
HistoryPushOutput(c) ==
    /\ pc[c] = "push_out"
    /\ db' = RedisRpush(db, OutputsKey("Cache.store"), Utf8Encode(KeyText(key[c])).v)
    /\ last' = Outcome("store", c, key[c], call[c].data, "none", "key", KeyText(key[c]),
                       0, <<>>, <<>>)
    /\ run' = Append(run, [by |-> c, call |-> call[c], key |-> key[c]])
    /\ holder' = HolderReturned(c)
    /\ ledger' = LedgerEnded(c, 1)
    /\ Back(c)
    /\ UNCHANGED <<base, failed>>

\* mutant: get is decorated with count_calls
GetCounted(c, k, fn) ==
    /\ Idle(c)
    /\ LET r == CacheGet(db, k, fn)
       IN last' = Outcome("get", "", k, NoData, fn, r.kind, r.v, 0, <<>>, <<>>)
    /\ db' = RedisIncr(db, "Cache.get")
    /\ UNCHANGED <<pc, call, key, rname, rcount, rins, base, run, failed, holder, ledger>>

\* Cache.get(key, fn)
Get(c, k, fn) ==
    /\ Idle(c)
    /\ LET r == CacheGet(db, k, fn)
       IN last' = Outcome("get", "", k, NoData, fn, r.kind, r.v, 0, <<>>, <<>>)
    /\ UNCHANGED <<db, pc, call, key, rname, rcount, rins, base, run, failed, holder, ledger>>

\* Cache.get_str(key)
GetStr(c, k) ==
    /\ Idle(c)
    /\ LET r == CacheGetStr(db, k)
       IN last' = Outcome("get", "", k, NoData, "utf8", r.kind, r.v, 0, <<>>, <<>>)
    /\ UNCHANGED <<db, pc, call, key, rname, rcount, rins, base, run, failed, holder, ledger>>

\* Cache.get_int(key)
GetInt(c, k) ==
    /\ Idle(c)
    /\ LET r == CacheGetInt(db, k)
       IN last' = Outcome("get", "", k, NoData, "int", r.kind, r.v, 0, <<>>, <<>>)
    /\ UNCHANGED <<db, pc, call, key, rname, rcount, rins, base, run, failed, holder, ledger>>

\* replay: call_count = int(get(method_name) or 0)
ReplayCount(c, m) ==
    /\ Idle(c)
    /\ rcount' = [rcount EXCEPT ![c] = CallCount(db, m)]
    /\ rname' = [rname EXCEPT ![c] = m]
    /\ pc' = [pc EXCEPT ![c] = "rp_in"]
    /\ last' = NoOutcome
    /\ UNCHANGED <<db, call, key, rins, base, run, failed, holder, ledger>>

\* replay: inputs = lrange(inputs_key, 0, -1)
ReplayInputs(c) ==
    /\ pc[c] = "rp_in"
    /\ rins' = [rins EXCEPT ![c] = RedisLrange(db, InputsKey(rname[c]))]
    /\ pc' = [pc EXCEPT ![c] = "rp_out"]
    /\ last' = NoOutcome
    /\ UNCHANGED <<db, call, key, rname, rcount, base, run, failed, holder, ledger>>

Min(a, b) == IF a < b THEN a ELSE b

\* mutant: zip_longest, the shorter sequence is padded with empty entries
ZipLongest(ins, outs) ==
    [i \in 1..(Len(ins) + Len(outs) - Min(Len(ins), Len(outs))) |->
        [inp |-> IF i <= Len(ins) THEN ins[i] ELSE <<>>,
         out |-> IF i <= Len(outs) THEN outs[i] ELSE <<>>]]

\* zip(inputs, outputs)
Zip(ins, outs) == [i \in 1..Min(Len(ins), Len(outs)) |-> [inp |-> ins[i], out |-> outs[i]]]

\* mutant: replay deletes the logs it has printed
ReplayOutputsConsuming(c) ==
    /\ pc[c] = "rp_out"
    /\ last' = Outcome("replay", "", rname[c], NoData, "none", "printed", <<>>, rcount[c],
                       Zip(rins[c], RedisLrange(db, OutputsKey(rname[c]))), <<>>)
    /\ Back(c)
    /\ db' = [db EXCEPT ![InputsKey(rname[c])] = Nil, ![OutputsKey(rname[c])] = Nil]
    /\ UNCHANGED <<base, run, failed, holder, ledger>>

\* replay: outputs = lrange(outputs_key, 0, -1); print the header and one line
\* for each pair of zip(inputs, outputs)
ReplayOutputs(c) ==
    /\ pc[c] = "rp_out"
    /\ last' = Outcome("replay", "", rname[c], NoData, "none", "printed", <<>>, rcount[c],
                       Zip(rins[c], RedisLrange(db, OutputsKey(rname[c]))), <<>>)
    /\ Back(c)
    /\ UNCHANGED <<db, base, run, failed, holder, ledger>>

OpAt(p) ==
    IF p \in {"incr", "set", "push_out"} THEN "store"
    ELSE IF p \in {"rp_in", "rp_out"} THEN "replay"
    ELSE "call"

\* the command the client is about to send fails (the store is unreachable):
\* the exception ends the call in progress, or the call being made
Outage(c) ==
    /\ last' = Outcome(OpAt(pc[c]), "", "", call[c].data, "none", "ConnectionError", <<>>,
                       0, <<>>, <<>>)
    /\ Back(c)
    /\ IF OpAt(pc[c]) = "store"
       THEN StoreRaised /\ ledger' = LedgerEnded(c, 0)
       ELSE UNCHANGED <<base, run, failed, holder, ledger>>
    /\ UNCHANGED db

\* the steps of initialize and of store, and a failing command
StoreStep(c, calls) ==
    \/ Initialize(c)
    \/ \E cl \in calls : HistoryPushInput(c, cl)
    \/ CountIncr(c)
    \/ StoreSet(c)
    \/ HistoryPushOutput(c)
    \/ Outage(c)

\* get, get_str and get_int
ReadStep(c, keys, fns) ==
    \/ \E k \in keys, fn \in fns : Get(c, k, fn)
    \/ \E k \in keys : GetStr(c, k)
    \/ \E k \in keys : GetInt(c, k)

\* the steps of replay
ReplayStep(c, methods) ==
    \/ \E m \in methods : ReplayCount(c, m)
    \/ ReplayInputs(c)
    \/ ReplayOutputs(c)

\* single-threaded, synchronous use: one process makes one call at a time; each
\* Initialize is a new Cache on the same database
Next ==
    \E c \in {"c1"} :
        StoreStep(c, Calls) \/ ReadStep(c, GetKeys, Converters) \/ ReplayStep(c, {"Cache.store"})

Spec == Init /\ [][Next]_vars

\* several processes share the database: their store, get and initialize calls
\* interleave command by command
ConcNext == \E c \in Clients : StoreStep(c, FewCalls) \/ Get(c, "u1", "none")

ConcSpec == Init /\ [][ConcNext]_vars

(***************************************************************************)
(* Properties                                                              *)
(***************************************************************************)
InStore(c) == pc[c] \in {"incr", "set", "push_out"}
InReplay(c) == pc[c] \in {"rp_in", "rp_out"}

\* the bytes rpush sends for the arguments of a store call, and for its key
InputEntry(cl) == Utf8Encode(StrArgs(Args(cl))).v
OutputEntry(k) == Utf8Encode(KeyText(k)).v

Returned == last.op = "store" /\ last.kind = "key"

RawOf(x) == [kind |-> "bytes", v |-> Encode(x).v]

AbsentGivesNone == (last.op = "get" /\ db[last.key] = Nil) => last.kind = "None"

\* get with the int converter returned None for an absent identifier while
\* another identifier holds a value
AbsentGivesNoneSeen ==
    /\ last.op = "get" /\ last.fn = "int" /\ last.kind = "None"
    /\ last.key \in Ids /\ db[last.key] = Nil
    /\ \E k \in Ids : db[k] # Nil

\* C4: when no store call is running, the n store calls that have returned
\* since the last initialize or failed call have raised the call count by n
\* and appended to the input log their n argument tuples and to the output log
\* the n identifiers they returned, in call order
CallsCountedAndLogged ==
    ~InStore("c1") =>
        /\ CallCount(db, "Cache.store") = base.count + Len(run)
        /\ Inputs("Cache.store") = base.ins \o [i \in DOMAIN run |-> InputEntry(run[i].call)]
        /\ Outputs("Cache.store") = base.outs \o [i \in DOMAIN run |-> OutputEntry(run[i].key)]

\* store(data='é') has returned after a store call that raised, and is logged
\* as ()
CallsCountedAndLoggedSeen ==
    /\ ~InStore("c1")
    /\ base.ins # <<>>
    /\ Len(run) = 1
    /\ run[1].call.kw
    /\ Inputs("Cache.store")[Len(base.ins) + 1] = <<40, 41>>
    /\ CallCount(db, "Cache.store") = base.count + 1

\* C5 as claimed: the input log and the output log of store have the same
\* length in every state
LogsSameLength == Len(Inputs("Cache.store")) = Len(Outputs("Cache.store"))

\* C5 amended: the input log is longer than the output log by one while a
\* store call is running, and by one for every store call that raised since
\* the last initialize
LogsDifferByOpenCalls ==
    Len(Inputs("Cache.store")) =
        Len(Outputs("Cache.store")) + (IF InStore("c1") THEN 1 ELSE 0) + failed

\* a store call is running after one has raised: two inputs, no output
LogsDifferSeen ==
    /\ InStore("c1")
    /\ failed = 1
    /\ Len(Outputs("Cache.store")) = 0
    /\ Len(Inputs("Cache.store")) = 2

\* C6: right after initialize the call count of every method reads 0 and its
\* input and output logs are empty
InitializeResetsStatistics ==
    last.op = "init" =>
        \A m \in Methods : CallCount(db, m) = 0 /\ Inputs(m) = <<>> /\ Outputs(m) = <<>>

\* an initialize ended in a state where store calls had returned
InitializeResetsSeen ==
    /\ last.op = "init"
    /\ Len(last.wiped) = 2
    /\ CallCount(db, "Cache.store") = 0

\* C7: right after initialize every key of the database is gone, and get
\* returns None for every identifier store had returned before, whatever the
\* converter
InitializeWipesAll ==
    last.op = "init" =>
        /\ \A k \in Keys : db[k] = Nil
        /\ \A i \in DOMAIN last.wiped, fn \in Converters :
             CacheGet(db, last.wiped[i].key, fn).kind = "None"

\* an initialize by one client wiped the value a store call of another client
\* had returned the identifier of
InitializeWipesOthers ==
    /\ last.op = "init"
    /\ \E i \in DOMAIN last.wiped : last.wiped[i].by # last.by /\ db[last.wiped[i].key] = Nil

\* what a get step reported
Got == [kind |-> last'.kind, v |-> last'.v]

\* C8: what get_str(k) returns is what get(k, decode UTF-8) returns, and what
\* get_int(k) returns is what get(k, int) returns, for every key; get_str right
\* after store(t) of a text t returns t, and get_int right after store(str(n))
\* returns n
TypedGets ==
    [][last'.op = "get" =>
         /\ last'.fn = "utf8" =>
              /\ CacheGetStr(db, last'.key) = CacheGet(db, last'.key, "utf8")
              /\ Got = CacheGetStr(db, last'.key)
         /\ last'.fn = "int" =>
              /\ CacheGetInt(db, last'.key) = CacheGet(db, last'.key, "int")
              /\ Got = CacheGetInt(db, last'.key)
         /\ (Returned /\ last'.key = last.key /\ last.data.t = "str") =>
              /\ last'.fn = "utf8" => Got = [kind |-> "str", v |-> last.data.v]
              /\ last'.fn = "int" =>
                   \A n \in -9..9 :
                     last.data.v = ReprInt(n) => Got = [kind |-> "int", v |-> <<n>>]]_vars

\* get_int returned -7 for the identifier of store('-7'), and the text 'é' is
\* stored as two bytes
TypedGetsSeen ==
    /\ last.op = "get" /\ last.fn = "int" /\ last.kind = "int" /\ last.v = <<-7>>
    /\ \E i \in DOMAIN run : run[i].key = last.key /\ run[i].call.data = PyStr(<<45, 55>>)
    /\ \E k \in Ids : db[k].s = <<195, 169>>

\* C9: no step of replay changes the database
ReplayReadsOnly ==
    [][(pc'["c1"] = "rp_in" \/ InReplay("c1")) => db' = db]_vars

\* replay has printed two lines and the logs and the count are still there
ReplayReadsOnlySeen ==
    /\ last.op = "replay" /\ Len(last.lines) = 2 /\ last.count = 2
    /\ Len(Inputs("Cache.store")) = 2 /\ Len(Outputs("Cache.store")) = 2
    /\ CallCount(db, "Cache.store") = 2

ConversionErrors == {"ValueError", "UnicodeDecodeError"}

\* C10: a get whose converter raises on the stored bytes raises that exception
\* (it returns neither None nor the bytes) and leaves the database as it was
ConversionFailureRaises ==
    [][(last'.op = "get" /\ last'.fn # "none" /\ db[last'.key].type = "string") =>
         LET r == Convert(last'.fn, db[last'.key].s)
         IN r.kind \in ConversionErrors
              => (last'.kind = r.kind /\ last'.kind \notin {"None", "bytes"} /\ db' = db)]_vars

\* get_int raised ValueError on the stored text 'é'
ConversionFailureSeen ==
    /\ last.op = "get" /\ last.fn = "int" /\ last.kind = "ValueError"
    /\ db[last.key].s = <<195, 169>>

\* no client is inside a store call
NoStoreRunning == \A c \in Clients : ~InStore(c)

\* the place in the output log of the identifier the i-th call of run returned
OutputPlace(i) == Len(base.outs) + i

\* C11: when no store call is in progress, the input log holds, at the place
\* where the output log holds the identifier a store call returned, the
\* argument tuple of that same call, also when clients interleave their calls;
\* stated for the states where both logs have the same length and no store call
\* has raised since the last initialize, where no entry lacks its partner
LogPairsCalls ==
    (/\ NoStoreRunning
     /\ failed = 0
     /\ Len(Inputs("Cache.store")) = Len(Outputs("Cache.store"))) =>
        \A i \in DOMAIN run :
            /\ OutputPlace(i) \in DOMAIN Outputs("Cache.store")
            /\ Outputs("Cache.store")[OutputPlace(i)] = OutputEntry(run[i].key)
            /\ Inputs("Cache.store")[OutputPlace(i)] = InputEntry(run[i].call)

\* C12 as claimed: when no store call is in progress, the store call count
\* is the number of store calls that have returned since the last initialize;
\* stated for the states where none has raised since the last initialize
CountIsCompleted ==
    (NoStoreRunning /\ failed = 0) => CallCount(db, "Cache.store") = ledger.returned

\* C12 amended: no incr is lost: the store call count is the number of store
\* calls that have sent their incr since the last initialize, the ones that
\* have ended (returned or raised) and the ones in progress
NoLostIncr ==
    CallCount(db, "Cache.store") = ledger.ended + Cardinality(ledger.counted)

\* the store calls of two clients have interleaved their incr, both have
\* returned and the count is 2
NoLostIncrSeen ==
    /\ NoStoreRunning
    /\ CallCount(db, "Cache.store") = 2
    /\ ledger.returned = 2
    /\ Len(run) = 2 /\ run[1].by # run[2].by
    /\ Inputs("Cache.store")[1] = InputEntry(run[2].call)
    /\ run[1].call # run[2].call

\* C13: replay prints one line for each of the first min(length of inputs,
\* length of outputs) places of the logs and no other: line i shows inputs[i]
\* and outputs[i], in the order of the logs
ReplayPrintsPairs ==
    [][(last'.op = "replay" /\ last'.kind = "printed") =>
         LET ins == Inputs(last'.key)
             outs == Outputs(last'.key)
         IN /\ Len(last'.lines) = Min(Len(ins), Len(outs))
            /\ \A i \in DOMAIN last'.lines :
                 last'.lines[i] = [inp |-> ins[i], out |-> outs[i]]]_vars

\* replay printed one line, (inputs[1], outputs[1]), of a log of two inputs and
\* one output: the second input is left out
ReplayPrintsPairsSeen ==
    /\ last.op = "replay" /\ last.kind = "printed" /\ last.key = "Cache.store"
    /\ Len(Inputs("Cache.store")) = 2 /\ Len(Outputs("Cache.store")) = 1
    /\ Len(last.lines) = 1
    /\ last.lines[1].inp = Inputs("Cache.store")[1]
    /\ last.lines[1].out = Outputs("Cache.store")[1]
    /\ Inputs("Cache.store")[1] # Inputs("Cache.store")[2]

\* the call count and the logs of store before the store call in progress, or
\* the one that has just ended, began
BeforeCall ==
    [count |-> base.count + Len(run),
     ins |-> base.ins \o [i \in DOMAIN run |-> InputEntry(run[i].call)],
     outs |-> base.outs \o [i \in DOMAIN run |-> OutputEntry(run[i].key)]]

\* C14: when the set of a store call fails, the caller gets the exception and
\* the call count, the input log and the output log of store are what they
\* were before the call
StoreFailureLeavesNoTrace ==
    [][(pc["c1"] = "set" /\ last'.op = "store" /\ last'.kind # "key") =>
         /\ pc'["c1"] = "idle"
         /\ Snapshot(db') = BeforeCall]_vars

\* C15: when no store call is in progress, the store call count is the length
\* of the input log of store and of its output log, and the count replay has
\* reported is the number of lines it has printed
CounterMatchesLogs ==
    ~InStore("c1") =>
        /\ CallCount(db, "Cache.store") = Len(Inputs("Cache.store"))
        /\ CallCount(db, "Cache.store") = Len(Outputs("Cache.store"))
        /\ (last.op = "replay" /\ last.kind = "printed") => last.count = Len(last.lines)

\* C16: a get, get_str or get_int, whatever the key holds and whatever the
\* converter does, leaves every stored value, every call count and every log
\* as it was, and get has no call count and no log of its own
ReadsChangeNothing ==
    [][last'.op = "get" =>
         /\ db' = db
         /\ CallCount(db', "Cache.get") = 0
         /\ RedisLrange(db', InputsKey("Cache.get")) = <<>>
         /\ RedisLrange(db', OutputsKey("Cache.get")) = <<>>]_vars

\* get_str has raised on the bytes b'\xff' while store has been called twice:
\* the value, the count and the logs are there
ReadsChangeNothingSeen ==
    /\ last.op = "get" /\ last.fn = "utf8" /\ last.kind = "UnicodeDecodeError"
    /\ db[last.key].s = <<255>>
    /\ CallCount(db, "Cache.store") = 2
    /\ Len(Inputs("Cache.store")) = 2 /\ Len(Outputs("Cache.store")) = 2

====
